---- MODULE Spec2Model ----
(***************************************************************************)
(* Spatial coordinate synthesis of argscape: the three copies of           *)
(* generate_spatial_locations_for_samples (backend/main.py, the refactored *)
(* backend/spatial_generation.py and the packaged                          *)
(* argscape/backend/spatial_generation.py) and the land mask of            *)
(* backend/geographic_utils.py.                                            *)
(*                                                                         *)
(* Fixed point: normalized and unit-grid coordinates are in thousandths,   *)
(* longitudes and latitudes in hundredths of a degree, Web Mercator        *)
(* coordinates in kilometres.  Node and individual IDs are 0-based as in   *)
(* tskit; a matrix row or a coordinate row k (1-based) belongs to the k-th *)
(* element of the list it was computed from.                               *)
(***************************************************************************)
EXTENDS Integers, Sequences, FiniteSets, TLC

VARIABLES
    impl,                 \* the copy of the code that runs: "main", "backend", "packaged"
    ts,                   \* the input tree sequence: node id -> [sample, individual]
    env,                  \* what the external collaborators do (tskit trees, sklearn MDS, land dataset)
    np_rng,               \* state of numpy's process-wide random generator
    cached_geometry,      \* get_land_geometry_eastern_hemisphere.cached_geometry
    mds_memo,             \* what MDS(random_state = seed) returned for this matrix, per seed
    pc,                   \* position inside generate_spatial_locations_for_samples
    call,                 \* arguments of the running call: [seed, crs]
    sample_nodes,         \* list of sample node ids
    representative_nodes, \* list handed to calculate_genealogical_distances
    genealogical_distances,
    spatial_coords,       \* embedding returned by embed_distances_in_2d
    normalized_coords,
    final_coords,
    lp,                   \* locals of the land placement of point lp.i
    land_log,             \* per placed point: the tier that produced it and the oracle queries made
    result,               \* what the call returned (or that it raised)
    history,              \* the calls already returned: [seed, crs, result]
    peer,                 \* a second thread running the builder: [pc, seed, emb, coords]
    oracle_thread,        \* a second thread inside is_point_on_land_eastern_hemisphere
    geometry_loads,       \* how often the land dataset was loaded in this process
    log                   \* warnings logged by the running call

vars == <<impl, ts, env, np_rng, cached_geometry, mds_memo, pc, call, sample_nodes,
          representative_nodes, genealogical_distances, spatial_coords,
          normalized_coords, final_coords, lp, land_log, result, history,
          peer, oracle_thread, geometry_loads, log>>

-----------------------------------------------------------------------------
(* Bounds of the model *)

MaxNodes == 3      \* nodes of the input tree sequence
MaxTrees == 2      \* local trees of the input tree sequence
MaxSeed == 1       \* seeds are None (NoSeed) or 0..MaxSeed
RngMod == 8        \* number of states of the modelled random generator
EmbMax == 4        \* MDS coordinates lie on the grid 0..EmbMax
MaxCalls == 2      \* calls of generate_spatial_locations_for_samples in one process

-----------------------------------------------------------------------------
(* Program constants (main.py literals; constants.py names) *)

MINIMUM_SAMPLES_REQUIRED == 2
GENEALOGICAL_DISTANCE_FALLBACK == 1000
SPATIAL_GRID_SIZE == 10
UNIT_GRID_MARGIN == 50                 \* 0.05
UNIT_GRID_NOISE_SCALE == 20            \* 0.02
COORDINATE_BOUNDARY_EPSILON == 10      \* 0.01
WGS84_LONGITUDE_MIN == -1500           \* -15.0 degrees
WGS84_LATITUDE_MIN == -6000            \* -60.0 degrees
WGS84_LONGITUDE_RANGE == 19500         \* 195.0 degrees
WGS84_LATITUDE_RANGE == 13500          \* 135.0 degrees
WGS84_LONGITUDE_MAX == WGS84_LONGITUDE_MIN + WGS84_LONGITUDE_RANGE
WGS84_LATITUDE_MAX == WGS84_LATITUDE_MIN + WGS84_LATITUDE_RANGE
WGS84_GEOGRAPHIC_NOISE_SCALE == 200    \* 2.0 degrees
WGS84_CLIP_INSET == 100                \* 1.0 degree
WEB_MERCATOR_X_RANGE == 20000          \* 20000000.0 m
WEB_MERCATOR_Y_RANGE == 15000          \* 15000000.0 m
WEB_MERCATOR_NOISE_SCALE == 100        \* 100000.0 m
WEB_MERCATOR_BOUNDS_X == 19000         \* 19000000 m
WEB_MERCATOR_BOUNDS_Y == 14000         \* 14000000 m
WEB_MERCATOR_NOMINAL_EXTENT == 20037   \* 20037508 m
MAX_LAND_PLACEMENT_ATTEMPTS == 40
LOCAL_SEARCH_STRATEGIES == 4
LAND_SEARCH_RADIUS_BASE == 200         \* 2.0 degrees
LAND_SEARCH_RADIUS_INCREMENT == 150    \* 1.5 degrees
\* a resampling loop that retries once more per draw
RegionalTriesOneMore == 5 + 1
REGIONAL_TRIES_PER_DRAW == 5           \* for _ in range(5)

ONE == 1000        \* 1.0 in thousandths
NoSeed == -1       \* random_seed = None

-----------------------------------------------------------------------------
(* Small helpers *)

Min2(a, b) == IF a < b THEN a ELSE b
Max2(a, b) == IF a > b THEN a ELSE b
Abs(a) == IF a < 0 THEN -a ELSE a

\* np.clip(v, lo, hi)
Clip(v, lo, hi) == Max2(lo, Min2(v, hi))

RECURSIVE SqrtSearch(_, _, _)
SqrtSearch(v, lo, hi) ==
    IF lo >= hi THEN lo
    ELSE LET mid == (lo + hi + 1) \div 2
         IN IF mid * mid <= v THEN SqrtSearch(v, mid, hi) ELSE SqrtSearch(v, lo, mid - 1)

\* floor of the square root
ISqrt(v) == SqrtSearch(v, 0, 40000)

RECURSIVE SumSeq(_)
SumSeq(s) == IF s = <<>> THEN 0 ELSE Head(s) + SumSeq(Tail(s))

-----------------------------------------------------------------------------
(* numpy's global generator: a deterministic function of its state.  A draw  *)
(* advances the state and reads the variate off the new state.              *)

RngNext(s) == (s * 5 + 3) % RngMod

\* np.random.seed(random_seed)
RngSeed(seed) == seed % RngMod

\* state after k draws
RECURSIVE RngSkip(_, _)
RngSkip(s, k) == IF k = 0 THEN s ELSE RngSkip(RngNext(s), k - 1)

ZTable == <<-30, -10, 0, 10, 30>>      \* standard normal variates, in tenths
UTable == <<0, 500, 999>>              \* uniform [0, 1) variates, in thousandths

\* k-th variate (k >= 1) drawn from state s
NormalAt(s, k, mu, sigma) == mu + (sigma * ZTable[(RngSkip(s, k) % 5) + 1]) \div 10
UnitAt(s, k) == UTable[(RngSkip(s, k) % 3) + 1]
UniformAt(s, k, lo, hi) == lo + ((hi - lo) * UnitAt(s, k)) \div ONE

-----------------------------------------------------------------------------
(* Land mask oracle: geographic_utils.is_point_on_land_eastern_hemisphere     *)

InBox(lon, lat, lon0, lon1, lat0, lat1) ==
    lon0 <= lon /\ lon <= lon1 /\ lat0 <= lat /\ lat <= lat1

\* the land_regions catalog: <<center_lon, center_lat, radius_lon, radius_lat>>
GEOGRAPHIC_LAND_REGIONS ==
    << <<1000, 0, 2500, 3500>>,        \* Africa
       <<4000, 5000, 3000, 2000>>,     \* Europe
       <<10000, 3500, 4000, 2500>>,    \* Asia
       <<8000, 1500, 1500, 2000>>,     \* India
       <<13500, -2500, 2500, 2000>>,   \* Australia
       <<4500, 2500, 1500, 1000>>,     \* Arabia
       <<13000, 3500, 2000, 1500>> >>  \* East_Asia

\* Land datasets the shapefile may hold (the dataset is data, not code):
\* no land at all, land everywhere, Australia only, small patches around the
\* region anchors.
MaskIds == {"empty", "full", "australia", "anchors"}

LandMask(mask, lon, lat) ==
    CASE mask = "empty" -> FALSE
      [] mask = "full" -> TRUE
      [] mask = "australia" -> InBox(lon, lat, 11500, 15000, -3500, -1500)
      [] OTHER -> \E k \in 1..Len(GEOGRAPHIC_LAND_REGIONS) :
                     InBox(lon, lat,
                           GEOGRAPHIC_LAND_REGIONS[k][1] - 600, GEOGRAPHIC_LAND_REGIONS[k][1] + 600,
                           GEOGRAPHIC_LAND_REGIONS[k][2] - 600, GEOGRAPHIC_LAND_REGIONS[k][2] + 600)

\* The coordinate rules used when no geometry answers: the set of answers one
\* query can get (the archipelago rule draws random.random() > 0.3).
CoordinateRuleAnswers(lon, lat) ==
    IF InBox(lon, lat, -1500, 6500, -4000, 4000)
       /\ ~(InBox(lon, lat, 2000, 4500, -500, 1500) \/ InBox(lon, lat, 3000, 4200, 2500, 3500))
    THEN {"land"}
    ELSE IF InBox(lon, lat, -1500, 7000, 3500, 7500) THEN {"land"}
    ELSE IF InBox(lon, lat, 2500, 18000, 500, 7500)
            /\ ~(InBox(lon, lat, 3500, 5500, 1500, 3000)
                 \/ InBox(lon, lat, 7500, 9500, 500, 2500)
                 \/ InBox(lon, lat, 4500, 7500, 3500, 5000))
    THEN {"land"}
    ELSE IF InBox(lon, lat, 6500, 14000, -1000, 4000)
            /\ ~InBox(lon, lat, 7500, 9500, 500, 2500)
    THEN {"land"}
    ELSE IF InBox(lon, lat, 11000, 18000, -5000, -1000) THEN {"land"}
    ELSE IF InBox(lon, lat, 12000, 15000, 2000, 5000) THEN {"land"}
    ELSE IF InBox(lon, lat, 4300, 5100, -2600, -1200) THEN {"land"}
    ELSE IF InBox(lon, lat, 3000, 6500, 1000, 3500)
            /\ ~InBox(lon, lat, 4800, 5800, 2000, 3000)
    THEN {"land"}
    ELSE IF InBox(lon, lat, 7800, 8200, 500, 1000) THEN {"land"}
    ELSE IF InBox(lon, lat, 9000, 14000, -1500, 1000) THEN {"land", "water"}
    ELSE {"water"}

\* get_land_geometry_eastern_hemisphere: the cache after the call ("geometry"
\* or "none"); it loads only while the attribute is unset.
get_land_geometry_eastern_hemisphere(cache, e) ==
    IF cache = "unset"
    THEN (IF e.shapefile = "present" THEN "geometry" ELSE "none")
    ELSE cache

\* the load runs only while the attribute is unset
LoadsNow(cache) == IF cache = "unset" THEN 1 ELSE 0

\* the oracle without its handler: an exception of the geometry test leaves it
is_point_on_land_unguarded(cache, e, lon, lat) ==
    IF lat < -6000 THEN {"water"}
    ELSE IF get_land_geometry_eastern_hemisphere(cache, e) = "geometry"
    THEN (IF e.geometry_raises
          THEN {"raise"}
          ELSE {IF LandMask(e.mask, lon, lat) THEN "land" ELSE "water"})
    ELSE CoordinateRuleAnswers(lon, lat)

\* is_point_on_land_eastern_hemisphere: the answers one call can give.  An
\* exception of the geometry test is caught and the coordinate rules answer.
is_point_on_land_eastern_hemisphere(cache, e, lon, lat) ==
    IF lat < -6000 THEN {"water"}
    ELSE IF get_land_geometry_eastern_hemisphere(cache, e) = "geometry"
    THEN (IF e.geometry_raises
          THEN CoordinateRuleAnswers(lon, lat)
          ELSE {IF LandMask(e.mask, lon, lat) THEN "land" ELSE "water"})
    ELSE CoordinateRuleAnswers(lon, lat)

-----------------------------------------------------------------------------
(* Candidate generation of the land search                                  *)

\* a longitude that is never clipped
ClipLonSkipped(v) == v

ClipLon(v) == Clip(v, WGS84_LONGITUDE_MIN + WGS84_CLIP_INSET, WGS84_LONGITUDE_MAX - WGS84_CLIP_INSET)
ClipLat(v) == Clip(v, WGS84_LATITUDE_MIN + WGS84_CLIP_INSET, WGS84_LATITUDE_MAX - WGS84_CLIP_INSET)

SqDist(lon, lat, region) ==
    (lon - region[1]) * (lon - region[1]) + (lat - region[2]) * (lat - region[2])

\* find_closest_land_region: the first region at minimal distance
find_closest_land_region(lon, lat) ==
    LET R == GEOGRAPHIC_LAND_REGIONS
        best == CHOOSE k \in 1..Len(R) :
                   /\ \A j \in 1..Len(R) : SqDist(lon, lat, R[k]) <= SqDist(lon, lat, R[j])
                   /\ \A j \in 1..(k - 1) : SqDist(lon, lat, R[j]) > SqDist(lon, lat, R[k])
    IN R[best]

CosTable == <<1000, 707, 0, -707, -1000, -707, 0, 707>>   \* cos(k * pi / 4), k = 0..7
SinTable == <<0, 707, 1000, 707, 0, -707, -1000, -707>>   \* sin(k * pi / 4)

\* a search radius that stays at its base value
LocalSearchRadiusFlat(attempt) == LAND_SEARCH_RADIUS_BASE + 0 * attempt

LocalSearchRadius(attempt) == LAND_SEARCH_RADIUS_BASE + attempt * LAND_SEARCH_RADIUS_INCREMENT

\* number of variates generate_search_candidate draws
CandidateDraws(strategy) == IF strategy = 3 THEN 0 ELSE 2

\* generate_search_candidate, before the clip; s is the generator state
generate_search_candidate(lon, lat, search_radius, strategy, attempt, s) ==
    CASE strategy = 0 ->
           <<lon + NormalAt(s, 1, 0, search_radius), lat + NormalAt(s, 2, 0, search_radius)>>
      [] strategy = 1 ->
           LET c == find_closest_land_region(lon, lat)
           IN <<lon + ((c[1] - lon) * 3) \div 10 + NormalAt(s, 1, 0, (search_radius * 7) \div 10),
                lat + ((c[2] - lat) * 3) \div 10 + NormalAt(s, 2, 0, (search_radius * 7) \div 10)>>
      [] strategy = 2 ->
           <<lon + NormalAt(s, 1, 0, search_radius * 2), lat + NormalAt(s, 2, 0, search_radius \div 2)>>
      [] OTHER ->
           <<lon + (search_radius * CosTable[((attempt + strategy) % 8) + 1]) \div ONE,
             lat + (search_radius * SinTable[((attempt + strategy) % 8) + 1]) \div ONE>>

\* the candidate the local search tests: clipped to the inset bounds
LocalCandidate(lon, lat, strategy, attempt, s) ==
    LET c == generate_search_candidate(lon, lat, LocalSearchRadius(attempt), strategy, attempt, s)
    IN <<ClipLon(c[1]), ClipLat(c[2])>>

\* a weight that reaches zero at a quarter of the distance
RegionWeightQuarterReach(original_x, original_y, region) ==
    LET norm_lon == ((region[1] - WGS84_LONGITUDE_MIN) * ONE) \div WGS84_LONGITUDE_RANGE
        norm_lat == ((region[2] - WGS84_LATITUDE_MIN) * ONE) \div WGS84_LATITUDE_RANGE
        distance == ISqrt((original_x - norm_lon) * (original_x - norm_lon)
                          + (original_y - norm_lat) * (original_y - norm_lat))
    IN Max2(0, ONE \div 4 - distance)

\* a weight in inverse proportion to the distance
RegionWeightInverse(original_x, original_y, region) ==
    LET norm_lon == ((region[1] - WGS84_LONGITUDE_MIN) * ONE) \div WGS84_LONGITUDE_RANGE
        norm_lat == ((region[2] - WGS84_LATITUDE_MIN) * ONE) \div WGS84_LATITUDE_RANGE
        distance == ISqrt((original_x - norm_lon) * (original_x - norm_lon)
                          + (original_y - norm_lat) * (original_y - norm_lat))
    IN (ONE * ONE) \div (distance + 1)

\* weight of one region for the point's original normalized position
RegionWeight(original_x, original_y, region) ==
    LET norm_lon == ((region[1] - WGS84_LONGITUDE_MIN) * ONE) \div WGS84_LONGITUDE_RANGE
        norm_lat == ((region[2] - WGS84_LATITUDE_MIN) * ONE) \div WGS84_LATITUDE_RANGE
        distance == ISqrt((original_x - norm_lon) * (original_x - norm_lon)
                          + (original_y - norm_lat) * (original_y - norm_lat))
    IN Max2(0, ONE - distance)

\* region_weights before the division by total_weight; all equal when the total is zero
RegionWeights(original_x, original_y) ==
    LET w == [k \in 1..Len(GEOGRAPHIC_LAND_REGIONS) |->
                 RegionWeight(original_x, original_y, GEOGRAPHIC_LAND_REGIONS[k])]
    IN IF SumSeq(w) > 0 THEN w ELSE [k \in 1..Len(GEOGRAPHIC_LAND_REGIONS) |-> 1]

RECURSIVE PrefixSum(_, _)
PrefixSum(w, k) == IF k = 0 THEN 0 ELSE w[k] + PrefixSum(w, k - 1)

\* np.random.choice(len(land_regions), p = region_weights) for the uniform variate u
ChooseRegion(w, u) ==
    CHOOSE k \in 1..Len(w) :
        /\ u * SumSeq(w) < ONE * PrefixSum(w, k)
        /\ \A j \in 1..(k - 1) : ~(u * SumSeq(w) < ONE * PrefixSum(w, j))

\* candidate of one regional try: draws 1 and 2 from state s, clipped
RegionalCandidate(region, s) ==
    <<ClipLon(NormalAt(s, 1, region[1], (region[3] * 4) \div 10)),
      ClipLat(NormalAt(s, 2, region[2], (region[4] * 4) \div 10))>>

\* a fallback that splits north from south at 0.6 in every quarter
QuadrantBoxOneSplit(original_x, original_y) ==
    IF original_x < 250
    THEN (IF original_y > 600 THEN <<500, 2500, 4500, 6500>> ELSE <<0, 2000, -1000, 2000>>)
    ELSE IF original_x < 500
    THEN (IF original_y > 600 THEN <<2500, 5000, 4500, 6500>> ELSE <<1500, 3500, -2000, 1000>>)
    ELSE IF original_x < 750
    THEN (IF original_y > 600 THEN <<6000, 12000, 3500, 5500>> ELSE <<5000, 9000, 1000, 3500>>)
    ELSE (IF original_y > 600 THEN <<10000, 14000, 2500, 4500>> ELSE <<12000, 15000, -3500, -1500>>)

\* the box of the quadrant fallback: <<lon_lo, lon_hi, lat_lo, lat_hi>>
QuadrantBox(original_x, original_y) ==
    IF original_x < 250
    THEN (IF original_y > 600 THEN <<500, 2500, 4500, 6500>> ELSE <<0, 2000, -1000, 2000>>)
    ELSE IF original_x < 500
    THEN (IF original_y > 600 THEN <<2500, 5000, 4500, 6500>> ELSE <<1500, 3500, -2000, 1000>>)
    ELSE IF original_x < 750
    THEN (IF original_y > 600 THEN <<6000, 12000, 3500, 5500>> ELSE <<5000, 9000, 1000, 3500>>)
    ELSE (IF original_y > 400 THEN <<10000, 14000, 2500, 4500>> ELSE <<12000, 15000, -3500, -1500>>)

\* attempt_regional_land_placement / strategy 3 of main.py: two uniform draws in the box
QuadrantPoint(original_x, original_y, s) ==
    LET b == QuadrantBox(original_x, original_y)
    IN <<UniformAt(s, 1, b[1], b[2]), UniformAt(s, 2, b[3], b[4])>>

-----------------------------------------------------------------------------
(* Tree sequence, sample list, representatives                              *)

Nodes(t) == DOMAIN t

RECURSIVE SortedSeq(_)
\* the elements of a finite set of integers in increasing order
SortedSeq(S) ==
    IF S = {} THEN <<>>
    ELSE LET m == CHOOSE x \in S : \A y \in S : x <= y
         IN <<m>> \o SortedSeq(S \ {m})

SeqToSet(q) == {q[k] : k \in 1..Len(q)}

\* [node.id for node in ts.nodes() if node.is_sample()]  /  ts.samples()
SampleNodes(t) == SortedSeq({n \in Nodes(t) : t[n].sample})

\* node_to_individual.get(node_id, node_id) of the packaged version: the
\* individual's id for a node that has an individual, the node's own id otherwise
Representative(t, node_id) ==
    IF t[node_id].individual # -1 THEN t[node_id].individual ELSE node_id

RECURSIVE UniqueReps(_, _, _)
UniqueReps(t, samples, seen) ==
    IF samples = <<>> THEN <<>>
    ELSE LET rep == Representative(t, Head(samples))
         IN IF rep \in seen
            THEN UniqueReps(t, Tail(samples), seen)
            ELSE <<rep>> \o UniqueReps(t, Tail(samples), seen \cup {rep})

\* representative_nodes of the packaged version, in order of first appearance
RepresentativeNodes(t, samples) == UniqueReps(t, samples, {})

\* the list handed to calculate_genealogical_distances
DistanceInput(im, t, samples) ==
    IF im = "packaged" THEN RepresentativeNodes(t, samples) ELSE samples

\* rep_index: position of a representative in representative_nodes
RepIndex(reps, rep) == CHOOSE k \in 1..Len(reps) : reps[k] = rep

-----------------------------------------------------------------------------
(* calculate_genealogical_distances                                         *)

\* tree.mrca(node_i, node_j) in tree t: [kind: "mrca" | "null" | "raise", d]
\* where d = (time(mrca) - time(node_i)) + (time(mrca) - time(node_j))
MrcaOutcome(e, t, a, b) == e.mrca[<<t, a, b>>]

RECURSIVE PairTotals(_, _, _, _)
\* <<total_distance, total_span>> over the trees 1..t for the ordered pair (a, b)
PairTotals(e, t, a, b) ==
    IF t = 0 THEN <<0, 0>>
    ELSE LET rest == PairTotals(e, t - 1, a, b)
             span == e.trees[t]
             o == MrcaOutcome(e, t, a, b)
         IN IF span = 0 THEN rest
            ELSE IF o.kind = "raise"
            THEN <<rest[1] + GENEALOGICAL_DISTANCE_FALLBACK * span, rest[2] + span>>
            ELSE IF o.kind = "mrca"
            THEN <<rest[1] + o.d * span, rest[2] + span>>
            ELSE rest

\* genealogical_distances[i, j] before the symmetrization
RawDistance(e, a, b) ==
    LET tot == PairTotals(e, Len(e.trees), a, b)
    IN IF tot[2] > 0 THEN tot[1] \div tot[2] ELSE GENEALOGICAL_DISTANCE_FALLBACK

RawMatrix(e, nodes) ==
    [i \in 1..Len(nodes) |->
        [j \in 1..Len(nodes) |-> IF i = j THEN 0 ELSE RawDistance(e, nodes[i], nodes[j])]]

\* a builder that returns the raw averages as they are
SymmetrizeSkipped(D) == D

\* (genealogical_distances + genealogical_distances.T) / 2
Symmetrize(D) ==
    [i \in 1..Len(D) |-> [j \in 1..Len(D) |-> (D[i][j] + D[j][i]) \div 2]]

\* main.py and backend/spatial_generation.py: never raises
calculate_genealogical_distances(e, nodes) == Symmetrize(RawMatrix(e, nodes))

\* ts.divergence of the packaged version raises for fewer than one index pair,
\* for a node id outside the node table and when tskit fails for a pair
DivergenceRaises(e, t, nodes) ==
    \/ Len(nodes) < 2
    \/ \E k \in 1..Len(nodes) : nodes[k] \notin Nodes(t)
    \/ \E i \in 1..Len(nodes), j \in 1..Len(nodes), tr \in 1..Len(e.trees) :
          i < j /\ MrcaOutcome(e, tr, nodes[i], nodes[j]).kind = "raise"

RECURSIVE DivergenceTotals(_, _, _, _)
DivergenceTotals(e, t, a, b) ==
    IF t = 0 THEN <<0, 0>>
    ELSE LET rest == DivergenceTotals(e, t - 1, a, b)
             o == MrcaOutcome(e, t, a, b)
         IN <<rest[1] + (IF o.kind = "mrca" THEN o.d * e.trees[t] ELSE 0), rest[2] + e.trees[t]>>

\* one entry of ts.divergence(..., mode = "branch", span_normalise = True)
Divergence(e, a, b) ==
    LET tot == DivergenceTotals(e, Len(e.trees), a, b)
    IN IF tot[2] > 0 THEN tot[1] \div tot[2] ELSE 0

\* packaged version: the upper triangle is computed once and mirrored
PackagedDistances(e, nodes) ==
    [i \in 1..Len(nodes) |->
        [j \in 1..Len(nodes) |->
            IF i = j THEN 0
            ELSE Divergence(e, nodes[Min2(i, j)], nodes[Max2(i, j)])]]

-----------------------------------------------------------------------------
(* embed_distances_in_2d, normalize_coordinates, the CRS branches            *)

\* a fallback that is one row short
RandomLocationsShort(n, s) ==
    [k \in 1..(n - 1) |-> <<UniformAt(s, 2 * k - 1, 0, SPATIAL_GRID_SIZE),
                            UniformAt(s, 2 * k, 0, SPATIAL_GRID_SIZE)>>]

\* np.random.uniform(0, SPATIAL_GRID_SIZE, size = (n, 2)) from state s
RandomLocations(n, s) ==
    [k \in 1..n |-> <<UniformAt(s, 2 * k - 1, 0, SPATIAL_GRID_SIZE),
                      UniformAt(s, 2 * k, 0, SPATIAL_GRID_SIZE)>>]

AxisMin(coords, ax) == CHOOSE v \in {coords[k][ax] : k \in 1..Len(coords)} :
                          \A k \in 1..Len(coords) : v <= coords[k][ax]
AxisMax(coords, ax) == CHOOSE v \in {coords[k][ax] : k \in 1..Len(coords)} :
                          \A k \in 1..Len(coords) : v >= coords[k][ax]

\* a range measured from zero instead of from the minimum
CoordRangeFromZero(coords, ax) ==
    IF AxisMax(coords, ax) = 0 THEN 1 ELSE AxisMax(coords, ax)

\* coord_range with coord_range[coord_range == 0] = 1.0
CoordRange(coords, ax) ==
    IF AxisMax(coords, ax) - AxisMin(coords, ax) = 0
    THEN 1
    ELSE AxisMax(coords, ax) - AxisMin(coords, ax)

normalize_coordinates(coords) ==
    [k \in 1..Len(coords) |->
        <<((coords[k][1] - AxisMin(coords, 1)) * ONE) \div CoordRange(coords, 1),
          ((coords[k][2] - AxisMin(coords, 2)) * ONE) \div CoordRange(coords, 2)>>]

\* a unit-grid branch without its final clip
ClipUnitSkipped(v) == v

\* np.clip(final_coords, eps, 1 - eps)
ClipUnit(v) == Clip(v, COORDINATE_BOUNDARY_EPSILON, ONE - COORDINATE_BOUNDARY_EPSILON)

\* generate_unit_grid_coordinates: margin, jitter (draw 2k-1, 2k for row k), clip
generate_unit_grid_coordinates(norm, s) ==
    LET grid_size == ONE - 2 * UNIT_GRID_MARGIN
    IN [k \in 1..Len(norm) |->
          <<ClipUnit(NormalAt(s, 2 * k - 1, (norm[k][1] * grid_size) \div ONE + UNIT_GRID_MARGIN,
                              UNIT_GRID_NOISE_SCALE)),
            ClipUnit(NormalAt(s, 2 * k, (norm[k][2] * grid_size) \div ONE + UNIT_GRID_MARGIN,
                              UNIT_GRID_NOISE_SCALE))>>]

\* generate_wgs84_coordinates up to the clip, before the land placement loop
ProjectWgs84(norm, s) ==
    [k \in 1..Len(norm) |->
        <<ClipLon(NormalAt(s, 2 * k - 1,
                           (norm[k][1] * WGS84_LONGITUDE_RANGE) \div ONE + WGS84_LONGITUDE_MIN,
                           WGS84_GEOGRAPHIC_NOISE_SCALE)),
          ClipLat(NormalAt(s, 2 * k,
                           (norm[k][2] * WGS84_LATITUDE_RANGE) \div ONE + WGS84_LATITUDE_MIN,
                           WGS84_GEOGRAPHIC_NOISE_SCALE))>>]

ClipMercatorX(v) == Clip(v, -WEB_MERCATOR_BOUNDS_X, WEB_MERCATOR_BOUNDS_X)
ClipMercatorY(v) == Clip(v, -WEB_MERCATOR_BOUNDS_Y, WEB_MERCATOR_BOUNDS_Y)

\* generate_web_mercator_coordinates
generate_web_mercator_coordinates(norm, s) ==
    [k \in 1..Len(norm) |->
        <<ClipMercatorX(NormalAt(s, 2 * k - 1,
                                 ((norm[k][1] - ONE \div 2) * 2 * WEB_MERCATOR_X_RANGE) \div ONE,
                                 WEB_MERCATOR_NOISE_SCALE)),
          ClipMercatorY(NormalAt(s, 2 * k,
                                 ((norm[k][2] - ONE \div 2) * 2 * WEB_MERCATOR_Y_RANGE) \div ONE,
                                 WEB_MERCATOR_NOISE_SCALE))>>]

KnownCrs == {"unit_grid", "EPSG:4326", "EPSG:3857"}

\* a CRS branch that sends an unrecognized identifier to Web Mercator
ProjectCrsMercatorDefault(crs, norm, s) ==
    CASE crs = "EPSG:4326" -> ProjectWgs84(norm, s)
      [] crs = "unit_grid" -> generate_unit_grid_coordinates(norm, s)
      [] OTHER -> generate_web_mercator_coordinates(norm, s)

\* the CRS branch of main.py and backend/spatial_generation.py; the land
\* placement loop of EPSG:4326 follows separately
ProjectCrs(crs, norm, s) ==
    CASE crs = "EPSG:4326" -> ProjectWgs84(norm, s)
      [] crs = "EPSG:3857" -> generate_web_mercator_coordinates(norm, s)
      [] OTHER -> generate_unit_grid_coordinates(norm, s)

\* crs_generators.get(crs, generate_unit_grid_coordinates) of the packaged
\* version.  The three functions come from argscape.backend.geo_utils; they take
\* the normalized coordinates alone and are taken to be the functions of the same
\* names above, drawing their jitter from numpy's global generator.
GeoUtilsProject(crs, norm, s) == ProjectCrs(crs, norm, s)

-----------------------------------------------------------------------------
(* create_tree_sequence_with_spatial_data                                    *)

\* all_node_coords of the packaged version: the row of each sample's representative
AllNodeCoords(im, t, samples, reps, coords) ==
    IF im = "packaged"
    THEN [k \in 1..Len(samples) |-> coords[RepIndex(reps, Representative(t, samples[k]))]]
    ELSE coords

\* a builder that writes the two planar values alone as the location
create_tree_sequence_with_planar_data(t, samples, coords) ==
    [kind |-> "ts",
     individuals |-> [k \in 1..Len(samples) |-> <<coords[k][1], coords[k][2]>>],
     node_individual |->
        [n \in Nodes(t) |->
            IF \E k \in 1..Len(samples) : samples[k] = n
            THEN (CHOOSE k \in 1..Len(samples) :
                     samples[k] = n /\ \A j \in (k + 1)..Len(samples) : samples[j] # n) - 1
            ELSE -1]]

\* the individuals table is cleared, one row <<x, y, 0>> is added per element of
\* sample_nodes (row ids 0, 1, ...) and every node is rewritten with
\* node_to_individual.get(node.id, -1)
create_tree_sequence_with_spatial_data(t, samples, coords) ==
    [kind |-> "ts",
     individuals |-> [k \in 1..Len(samples) |-> <<coords[k][1], coords[k][2], 0>>],
     node_individual |->
        [n \in Nodes(t) |->
            IF \E k \in 1..Len(samples) : samples[k] = n
            THEN (CHOOSE k \in 1..Len(samples) :
                     samples[k] = n /\ \A j \in (k + 1)..Len(samples) : samples[j] # n) - 1
            ELSE -1]]

\* a builder that rebuilds the tables although it has nothing to attach
PassthroughRebuilt(t) == create_tree_sequence_with_spatial_data(t, <<>>, <<>>)

\* "return ts" below the minimum sample count
Passthrough(t) ==
    [kind |-> "input", individuals |-> <<>>,
     node_individual |-> [n \in Nodes(t) |-> t[n].individual]]

Raised(t) ==
    [kind |-> "raised", individuals |-> <<>>, node_individual |-> [n \in Nodes(t) |-> -1]]

NoResult(t) ==
    [kind |-> "none", individuals |-> <<>>, node_individual |-> [n \in Nodes(t) |-> -1]]

-----------------------------------------------------------------------------
(* sklearn's MDS: an external optimizer.  For one matrix and one integer     *)
(* random_state it is a function (mds_memo); which coordinates it returns,   *)
(* or that it raises (the empty embedding), is the environment's choice.     *)

MDSFailed == <<>>

Grid == 0..EmbMax

DiagonalEmbedding(n) ==
    [k \in 1..n |-> IF k = 1 THEN <<0, 0>>
                    ELSE IF k = 2 THEN <<EmbMax, EmbMax>>
                    ELSE <<EmbMax \div 2, 1>>]

MdsOutcomes(family, n) ==
    CASE family = "diag" -> {DiagonalEmbedding(n)}
      [] family = "fail" -> {MDSFailed}
      [] family = "diag_or_fail" -> {DiagonalEmbedding(n), MDSFailed}
      [] family = "degenerate" -> {[k \in 1..n |-> <<c, c>>] : c \in {0, EmbMax}}
                                   \cup {[k \in 1..n |-> <<k, 1>>]}
      [] family = "third_free" ->
           {[k \in 1..n |-> IF k = 3 THEN <<x, y>> ELSE DiagonalEmbedding(n)[k]] :
               x \in Grid, y \in Grid}
      [] OTHER -> [1..n -> Grid \X Grid]

-----------------------------------------------------------------------------
(* The state machine                                                        *)

Seeds == {NoSeed} \cup 0..MaxSeed
CrsValues == KnownCrs \cup {"EPSG:9999"}
Impls == {"main", "backend", "packaged"}

\* main.py and backend/spatial_generation.py call np.random.seed(random_seed);
\* the packaged version does not
SeedsGlobalGenerator(im) == im # "packaged"

\* main.py runs local search, regional resampling and quadrant fallback;
\* backend/spatial_generation.py runs local search and then the quadrant boxes
\* (attempt_regional_land_placement).  The packaged version imports its CRS
\* functions from geo_utils and is taken to follow main.py.
HasRegionalResampling(im) == im # "backend"

\* backend/spatial_generation.py guards the import of geographic_utils
OracleImported(im, e) == im # "backend" \/ e.importable

PeerIdle == [pc |-> "idle", seed |-> NoSeed, emb |-> <<>>, coords |-> <<>>]

LpIdle == [i |-> 0, attempt |-> 0, strategy |-> 0, tries |-> 0, region |-> 0,
           queries |-> 0, local_queries |-> 0, regional_queries |-> 0]

InitWith(cfg) ==
    /\ impl = cfg.impl
    /\ ts = cfg.ts
    /\ env = cfg.env
    /\ np_rng = cfg.np_rng
    /\ cached_geometry = "unset"
    /\ mds_memo = <<>>
    /\ pc = "idle"
    /\ call = [seed |-> NoSeed, crs |-> "unit_grid"]
    /\ sample_nodes = <<>>
    /\ representative_nodes = <<>>
    /\ genealogical_distances = <<>>
    /\ spatial_coords = <<>>
    /\ normalized_coords = <<>>
    /\ final_coords = <<>>
    /\ lp = LpIdle
    /\ land_log = <<>>
    /\ result = NoResult(cfg.ts)
    /\ history = <<>>
    /\ peer = PeerIdle
    /\ oracle_thread = "idle"
    /\ geometry_loads = 0
    /\ log = {}

\* entry of generate_spatial_locations_for_samples up to the minimum-sample check
Begin(seed, crs) ==
    /\ pc = "idle"
    /\ Len(history) < env.calls
    /\ call' = [seed |-> seed, crs |-> crs]
    /\ np_rng' = IF seed # NoSeed /\ SeedsGlobalGenerator(impl) THEN RngSeed(seed) ELSE np_rng
    /\ sample_nodes' = SampleNodes(ts)
    /\ IF Len(SampleNodes(ts)) < MINIMUM_SAMPLES_REQUIRED
       THEN /\ result' = Passthrough(ts)
            /\ representative_nodes' = <<>>
            /\ pc' = "done"
       ELSE /\ result' = NoResult(ts)
            /\ representative_nodes' = DistanceInput(impl, ts, SampleNodes(ts))
            /\ pc' = "dist"
    /\ land_log' = <<>>
    /\ log' = IF Len(SampleNodes(ts)) < MINIMUM_SAMPLES_REQUIRED
              THEN {"too_few_samples"} ELSE {}
    /\ UNCHANGED <<impl, ts, env, peer, oracle_thread, cached_geometry, geometry_loads, mds_memo, genealogical_distances,
                   spatial_coords, normalized_coords, final_coords, lp, history>>

\* the distance matrix; the packaged builder has no handler around ts.divergence
Distances ==
    /\ pc = "dist"
    /\ IF impl = "packaged" /\ DivergenceRaises(env, ts, representative_nodes)
       THEN /\ result' = Raised(ts)
            /\ pc' = "done"
            /\ UNCHANGED genealogical_distances
       ELSE /\ genealogical_distances' =
                  IF impl = "packaged"
                  THEN PackagedDistances(env, representative_nodes)
                  ELSE calculate_genealogical_distances(env, representative_nodes)
            /\ pc' = "embed"
            /\ UNCHANGED result
    /\ UNCHANGED <<impl, ts, env, log, peer, oracle_thread, np_rng, cached_geometry, geometry_loads, mds_memo, call, sample_nodes,
                   representative_nodes, spatial_coords, normalized_coords, final_coords,
                   lp, land_log, history>>

\* embed_distances_in_2d: MDS, or random locations when MDS raises.  With
\* random_state = None sklearn draws from numpy's global generator.
Embed ==
    /\ pc = "embed"
    /\ \E outcome \in MdsOutcomes(env.mds, Len(representative_nodes)), r \in 0..(RngMod - 1) :
          /\ call.seed # NoSeed => r = np_rng
          /\ (call.seed # NoSeed /\ call.seed \in DOMAIN mds_memo) => outcome = mds_memo[call.seed]
          /\ mds_memo' = IF call.seed = NoSeed THEN mds_memo
                         ELSE [x \in DOMAIN mds_memo \cup {call.seed} |->
                                  IF x = call.seed THEN outcome ELSE mds_memo[x]]
          /\ log' = IF outcome = MDSFailed THEN log \cup {"mds_failed"} ELSE log
          /\ IF outcome # MDSFailed
             THEN /\ spatial_coords' = outcome
                  /\ np_rng' = r
             ELSE IF impl = "packaged"
             THEN /\ spatial_coords' =
                        RandomLocations(Len(representative_nodes),
                                        IF call.seed = NoSeed THEN r ELSE RngSeed(call.seed))
                  /\ np_rng' = np_rng
             ELSE /\ spatial_coords' = RandomLocations(Len(representative_nodes), r)
                  /\ np_rng' = RngSkip(r, 2 * Len(representative_nodes))
    /\ pc' = "project"
    /\ UNCHANGED <<impl, ts, env, peer, oracle_thread, cached_geometry, geometry_loads, call, sample_nodes, representative_nodes,
                   genealogical_distances, normalized_coords, final_coords, lp, land_log,
                   result, history>>

\* normalize_coordinates and the CRS branch up to its final clip
Project ==
    /\ pc = "project"
    /\ LET norm == normalize_coordinates(spatial_coords)
       IN /\ normalized_coords' = norm
          /\ final_coords' = IF impl = "packaged"
                             THEN GeoUtilsProject(call.crs, norm, np_rng)
                             ELSE ProjectCrs(call.crs, norm, np_rng)
    /\ np_rng' = RngSkip(np_rng, 2 * Len(spatial_coords))
    /\ log' = IF call.crs \in KnownCrs THEN log ELSE log \cup {"unknown_crs"}
    /\ IF call.crs = "EPSG:4326"
       THEN pc' = "land_check" /\ lp' = [LpIdle EXCEPT !.i = 1]
       ELSE pc' = "attach" /\ lp' = LpIdle
    /\ UNCHANGED <<impl, ts, env, peer, oracle_thread, cached_geometry, geometry_loads, mds_memo, call, sample_nodes,
                   representative_nodes, genealogical_distances, spatial_coords, land_log,
                   result, history>>

\* a placement that hands back its point one hundredth of a degree further east
FinishPointShifted(pt, tier, l) ==
    /\ final_coords' = [final_coords EXCEPT ![l.i] = <<pt[1] + 1, pt[2]>>]
    /\ land_log' = Append(land_log,
                          [tier |-> tier, queries |-> l.queries,
                           local_queries |-> l.local_queries,
                           regional_queries |-> l.regional_queries,
                           projected |-> final_coords[l.i]])
    /\ IF l.i = Len(final_coords)
       THEN pc' = "attach" /\ lp' = LpIdle
       ELSE pc' = "land_check" /\ lp' = [LpIdle EXCEPT !.i = l.i + 1]
    /\ UNCHANGED result

\* the placement of point lp.i ends with the point pt produced by tier
FinishPoint(pt, tier, l) ==
    /\ final_coords' = [final_coords EXCEPT ![l.i] = pt]
    /\ land_log' = Append(land_log,
                          [tier |-> tier, queries |-> l.queries,
                           local_queries |-> l.local_queries,
                           regional_queries |-> l.regional_queries,
                           projected |-> final_coords[l.i]])
    /\ IF l.i = Len(final_coords)
       THEN pc' = "attach" /\ lp' = LpIdle
       ELSE pc' = "land_check" /\ lp' = [LpIdle EXCEPT !.i = l.i + 1]
    /\ UNCHANGED result

\* an exception of the oracle reaches the caller: no call site has a handler
OracleRaised ==
    /\ result' = Raised(ts)
    /\ pc' = "done"
    /\ lp' = LpIdle
    /\ UNCHANGED <<final_coords, land_log>>

\* "If already on land, keep it" (the first oracle query of a point)
LandCheck ==
    /\ pc = "land_check"
    /\ LET lon == final_coords[lp.i][1]
           lat == final_coords[lp.i][2]
       IN IF ~OracleImported(impl, env)
          THEN /\ FinishPoint(<<lon, lat>>, "unavailable", lp)
               /\ UNCHANGED <<cached_geometry, geometry_loads>>
          ELSE /\ cached_geometry' = get_land_geometry_eastern_hemisphere(cached_geometry, env)
               /\ geometry_loads' = geometry_loads + LoadsNow(cached_geometry)
               /\ \E ans \in is_point_on_land_eastern_hemisphere(cached_geometry, env, lon, lat) :
                     LET l == [lp EXCEPT !.queries = 1]
                     IN CASE ans = "land" -> FinishPoint(<<lon, lat>>, "kept", l)
                          [] ans = "water" ->
                               /\ pc' = "local"
                               /\ lp' = l
                               /\ UNCHANGED <<final_coords, land_log, result>>
                          [] OTHER -> OracleRaised
    /\ UNCHANGED <<impl, ts, env, log, peer, oracle_thread, np_rng, mds_memo, call, sample_nodes, representative_nodes,
                   genealogical_distances, spatial_coords, normalized_coords, history>>

\* one candidate of the local search (attempt lp.attempt, strategy lp.strategy)
LocalStep ==
    /\ pc = "local"
    /\ LET lon == final_coords[lp.i][1]
           lat == final_coords[lp.i][2]
           cand == LocalCandidate(lon, lat, lp.strategy, lp.attempt, np_rng)
           l == [lp EXCEPT !.queries = @ + 1, !.local_queries = @ + 1]
       IN \E ans \in is_point_on_land_eastern_hemisphere(cached_geometry, env, cand[1], cand[2]) :
             CASE ans = "land" -> FinishPoint(cand, "local", l)
               [] ans = "water" ->
                    /\ IF lp.strategy + 1 < LOCAL_SEARCH_STRATEGIES
                       THEN pc' = "local" /\ lp' = [l EXCEPT !.strategy = @ + 1]
                       ELSE IF lp.attempt + 1 < MAX_LAND_PLACEMENT_ATTEMPTS \div 2
                       THEN pc' = "local" /\ lp' = [l EXCEPT !.strategy = 0, !.attempt = @ + 1]
                       ELSE /\ pc' = IF HasRegionalResampling(impl) THEN "regional" ELSE "quadrant"
                            /\ lp' = [l EXCEPT !.strategy = 0, !.attempt = 0]
                    /\ UNCHANGED <<final_coords, land_log, result>>
               [] OTHER -> OracleRaised
    /\ np_rng' = RngSkip(np_rng, CandidateDraws(lp.strategy))
    /\ cached_geometry' = get_land_geometry_eastern_hemisphere(cached_geometry, env)
    /\ geometry_loads' = geometry_loads + LoadsNow(cached_geometry)
    /\ UNCHANGED <<impl, ts, env, log, peer, oracle_thread, mds_memo, call, sample_nodes, representative_nodes,
                   genealogical_distances, spatial_coords, normalized_coords, history>>

\* one try of the weighted regional resampling; the region is drawn at the
\* first of the five tries of an attempt
RegionalStep ==
    /\ pc = "regional"
    /\ LET ox == normalized_coords[lp.i][1]
           oy == normalized_coords[lp.i][2]
           first == lp.tries = 0
           region_idx == IF first
                         THEN ChooseRegion(RegionWeights(ox, oy), UnitAt(np_rng, 1))
                         ELSE lp.region
           s == IF first THEN RngNext(np_rng) ELSE np_rng
           cand == RegionalCandidate(GEOGRAPHIC_LAND_REGIONS[region_idx], s)
           l == [lp EXCEPT !.queries = @ + 1, !.regional_queries = @ + 1, !.region = region_idx]
       IN /\ np_rng' = RngSkip(s, 2)
          /\ \E ans \in is_point_on_land_eastern_hemisphere(cached_geometry, env, cand[1], cand[2]) :
                CASE ans = "land" -> FinishPoint(cand, "regional", l)
                  [] ans = "water" ->
                       /\ IF lp.tries + 1 < REGIONAL_TRIES_PER_DRAW
                          THEN pc' = "regional" /\ lp' = [l EXCEPT !.tries = @ + 1]
                          ELSE IF lp.attempt + 1 < MAX_LAND_PLACEMENT_ATTEMPTS
                                                     - MAX_LAND_PLACEMENT_ATTEMPTS \div 2
                          THEN pc' = "regional" /\ lp' = [l EXCEPT !.tries = 0, !.attempt = @ + 1]
                          ELSE pc' = "quadrant"
                               /\ lp' = [l EXCEPT !.tries = 0, !.attempt = 0, !.region = 0]
                       /\ UNCHANGED <<final_coords, land_log, result>>
                  [] OTHER -> OracleRaised
    /\ cached_geometry' = get_land_geometry_eastern_hemisphere(cached_geometry, env)
    /\ geometry_loads' = geometry_loads + LoadsNow(cached_geometry)
    /\ UNCHANGED <<impl, ts, env, log, peer, oracle_thread, mds_memo, call, sample_nodes, representative_nodes,
                   genealogical_distances, spatial_coords, normalized_coords, history>>

\* the quadrant fallback: two uniform draws in the box, no oracle query
QuadrantStep ==
    /\ pc = "quadrant"
    /\ FinishPoint(QuadrantPoint(normalized_coords[lp.i][1], normalized_coords[lp.i][2], np_rng),
                   "quadrant", lp)
    /\ np_rng' = RngSkip(np_rng, 2)
    /\ UNCHANGED <<impl, ts, env, log, peer, oracle_thread, cached_geometry, geometry_loads, mds_memo, call, sample_nodes,
                   representative_nodes, genealogical_distances, spatial_coords,
                   normalized_coords, history>>

\* create_tree_sequence_with_spatial_data and the return
Attach ==
    /\ pc = "attach"
    /\ result' = create_tree_sequence_with_spatial_data(
                     ts, sample_nodes,
                     AllNodeCoords(impl, ts, sample_nodes, representative_nodes, final_coords))
    /\ pc' = "done"
    /\ UNCHANGED <<impl, ts, env, log, peer, oracle_thread, np_rng, cached_geometry, geometry_loads, mds_memo, call, sample_nodes,
                   representative_nodes, genealogical_distances, spatial_coords,
                   normalized_coords, final_coords, lp, land_log, history>>

\* the caller has the result; the locals are gone
Return ==
    /\ pc = "done"
    /\ history' = Append(history, [seed |-> call.seed, crs |-> call.crs, result |-> result])
    /\ pc' = "idle"
    /\ result' = NoResult(ts)
    /\ sample_nodes' = <<>>
    /\ representative_nodes' = <<>>
    /\ genealogical_distances' = <<>>
    /\ spatial_coords' = <<>>
    /\ normalized_coords' = <<>>
    /\ final_coords' = <<>>
    /\ land_log' = <<>>
    /\ lp' = LpIdle
    /\ UNCHANGED <<impl, ts, env, log, peer, oracle_thread, np_rng, cached_geometry, geometry_loads, mds_memo, call>>

\* other code of the process draws from numpy's global generator between calls
Elsewhere ==
    /\ pc = "idle"
    /\ history # <<>>
    /\ Len(history) < env.calls
    /\ np_rng' = RngNext(np_rng)
    /\ UNCHANGED <<impl, ts, env, log, peer, oracle_thread, cached_geometry, geometry_loads, mds_memo, pc, call, sample_nodes,
                   representative_nodes, genealogical_distances, spatial_coords,
                   normalized_coords, final_coords, lp, land_log, result, history>>

\* number of rows the builder embeds for the input
EmbeddedRows == Len(DistanceInput(impl, ts, SampleNodes(ts)))

\* a second thread enters generate_spatial_locations_for_samples(ts, seed,
\* "unit_grid"): the same np.random.seed on the same process-wide generator
PeerBegin(seed) ==
    /\ env.threads = 2
    /\ peer.pc = "idle"
    /\ Len(SampleNodes(ts)) >= MINIMUM_SAMPLES_REQUIRED
    /\ peer' = [PeerIdle EXCEPT !.pc = "embed", !.seed = seed]
    /\ np_rng' = IF SeedsGlobalGenerator(impl) THEN RngSeed(seed) ELSE np_rng
    /\ UNCHANGED <<impl, ts, env, log, oracle_thread, cached_geometry, geometry_loads, mds_memo,
                   pc, call, sample_nodes, representative_nodes, genealogical_distances,
                   spatial_coords, normalized_coords, final_coords, lp, land_log, result,
                   history>>

\* embed_distances_in_2d in the second thread
PeerEmbed ==
    /\ peer.pc = "embed"
    /\ \E outcome \in MdsOutcomes(env.mds, EmbeddedRows) :
          /\ peer.seed \in DOMAIN mds_memo => outcome = mds_memo[peer.seed]
          /\ mds_memo' = [x \in DOMAIN mds_memo \cup {peer.seed} |->
                             IF x = peer.seed THEN outcome ELSE mds_memo[x]]
          /\ IF outcome # MDSFailed
             THEN /\ peer' = [peer EXCEPT !.pc = "project", !.emb = outcome]
                  /\ UNCHANGED np_rng
             ELSE IF impl = "packaged"
             THEN /\ peer' = [peer EXCEPT !.pc = "project",
                                          !.emb = RandomLocations(EmbeddedRows, RngSeed(peer.seed))]
                  /\ UNCHANGED np_rng
             ELSE /\ peer' = [peer EXCEPT !.pc = "project",
                                          !.emb = RandomLocations(EmbeddedRows, np_rng)]
                  /\ np_rng' = RngSkip(np_rng, 2 * EmbeddedRows)
    /\ UNCHANGED <<impl, ts, env, log, oracle_thread, cached_geometry, geometry_loads,
                   pc, call, sample_nodes, representative_nodes, genealogical_distances,
                   spatial_coords, normalized_coords, final_coords, lp, land_log, result,
                   history>>

\* normalization and the unit-grid jitter in the second thread
PeerProject ==
    /\ peer.pc = "project"
    /\ peer' = [peer EXCEPT !.pc = "done",
                            !.coords = IF impl = "packaged"
                                       THEN GeoUtilsProject("unit_grid",
                                                normalize_coordinates(peer.emb), np_rng)
                                       ELSE ProjectCrs("unit_grid",
                                                normalize_coordinates(peer.emb), np_rng)]
    /\ np_rng' = RngSkip(np_rng, 2 * Len(peer.emb))
    /\ UNCHANGED <<impl, ts, env, log, oracle_thread, cached_geometry, geometry_loads, mds_memo,
                   pc, call, sample_nodes, representative_nodes, genealogical_distances,
                   spatial_coords, normalized_coords, final_coords, lp, land_log, result,
                   history>>

\* a second thread calls is_point_on_land_eastern_hemisphere: the hasattr test
\* of get_land_geometry_eastern_hemisphere
OracleThreadEnter ==
    /\ env.oracle_callers = 2
    /\ oracle_thread = "idle"
    /\ oracle_thread' = IF cached_geometry = "unset" THEN "loading" ELSE "done"
    /\ UNCHANGED <<impl, ts, env, log, peer, np_rng, cached_geometry, geometry_loads, mds_memo,
                   pc, call, sample_nodes, representative_nodes, genealogical_distances,
                   spatial_coords, normalized_coords, final_coords, lp, land_log, result,
                   history>>

\* ... and, having seen no attribute, loads the dataset and stores the outcome
OracleThreadLoad ==
    /\ oracle_thread = "loading"
    /\ geometry_loads' = geometry_loads + 1
    /\ cached_geometry' = get_land_geometry_eastern_hemisphere("unset", env)
    /\ oracle_thread' = "done"
    /\ UNCHANGED <<impl, ts, env, log, peer, np_rng, mds_memo,
                   pc, call, sample_nodes, representative_nodes, genealogical_distances,
                   spatial_coords, normalized_coords, final_coords, lp, land_log, result,
                   history>>

Next ==
    \/ \E seed \in env.seeds, crs \in env.crs : Begin(seed, crs)
    \/ Distances
    \/ Embed
    \/ Project
    \/ LandCheck
    \/ LocalStep
    \/ RegionalStep
    \/ QuadrantStep
    \/ Attach
    \/ Return
    \/ Elsewhere
    \/ \E seed \in env.seeds \ {NoSeed} : PeerBegin(seed)
    \/ PeerEmbed
    \/ PeerProject
    \/ OracleThreadEnter
    \/ OracleThreadLoad

-----------------------------------------------------------------------------
(* Initial states: the inputs and the behaviour of the collaborators         *)

NodeRange == 0..(MaxNodes - 1)

\* a tree sequence of n sample nodes without individuals
PlainTs(n) == [k \in 0..(n - 1) |-> [sample |-> TRUE, individual |-> -1]]

\* every tree sequence of 1..MaxNodes nodes, each a sample or not, each with no
\* individual or with individual 0 or 1
TsShapes ==
    UNION {[0..(n - 1) -> [sample : BOOLEAN, individual : -1..1]] : n \in 1..MaxNodes}

\* tree.mrca answers every pair in every tree; the distance grows with the id gap
PlainMrca(ntrees) ==
    [x \in (1..ntrees) \X NodeRange \X NodeRange |->
        [kind |-> "mrca", d |-> 2 * (Abs(x[2] - x[3]) + 1)]]

\* every pair coalesces at time zero: an all-zero distance matrix
ZeroMrca(ntrees) ==
    [x \in (1..ntrees) \X NodeRange \X NodeRange |-> [kind |-> "mrca", d |-> 0]]

BaseEnv ==
    [trees |-> <<1>>, mrca |-> PlainMrca(1),
     shapefile |-> "present", geometry_raises |-> FALSE, mask |-> "australia",
     importable |-> TRUE, mds |-> "diag", threads |-> 1, oracle_callers |-> 1,
     calls |-> 1, seeds |-> {0}, crs |-> {"EPSG:4326"}]

\* two seeded unit-grid runs in parallel threads of one process
ThreadSlice ==
    {[impl |-> im, ts |-> PlainTs(2),
      env |-> [BaseEnv EXCEPT !.threads = 2, !.mds = "diag_or_fail", !.seeds = 0..MaxSeed,
                              !.crs = {"unit_grid"}],
      np_rng |-> 0] : im \in {"main", "backend"}}

\* a geographic run while a second thread asks the oracle, per outcome of the load
LoaderSlice ==
    {[impl |-> "main", ts |-> PlainTs(2),
      env |-> [BaseEnv EXCEPT !.oracle_callers = 2, !.mask = "full", !.shapefile = f],
      np_rng |-> 0] : f \in {"present", "missing", "loaderror"}}

\* two geographic calls of main.py over a dataset with little land: every tier runs
BaseSlice ==
    {[impl |-> "main", ts |-> PlainTs(3), env |-> [BaseEnv EXCEPT !.calls = 2], np_rng |-> 0]}
    \cup ThreadSlice \cup LoaderSlice

\* every tree sequence shape and every copy of the code, one seeded call in any CRS
ShapeSlice ==
    {[impl |-> im, ts |-> t,
      env |-> [BaseEnv EXCEPT !.shapefile = "missing", !.mds = "diag_or_fail",
                              !.crs = CrsValues],
      np_rng |-> 0] : im \in Impls, t \in TsShapes}

\* two calls with any seeds in the unit-grid branches, other draws in between
RepeatSlice ==
    {[impl |-> im, ts |-> PlainTs(2),
      env |-> [BaseEnv EXCEPT !.mds = "diag_or_fail", !.calls = MaxCalls, !.seeds = Seeds,
                              !.crs = {"unit_grid", "EPSG:9999"}],
      np_rng |-> 0] : im \in Impls}

\* one geographic call per land dataset, per failure of the dataset and per
\* position of the third point; seeded, so the draws are those of the seed
OracleConfigs ==
    {[BaseEnv EXCEPT !.mask = m] : m \in MaskIds}
    \cup {[BaseEnv EXCEPT !.geometry_raises = TRUE],
          [BaseEnv EXCEPT !.shapefile = "missing"],
          [BaseEnv EXCEPT !.shapefile = "loaderror"]}

LandSlice ==
    {[impl |-> im, ts |-> PlainTs(3),
      env |-> [e EXCEPT !.mds = "third_free", !.seeds = 0..MaxSeed],
      np_rng |-> 0] : im \in {"main", "backend"}, e \in OracleConfigs}
    \cup {[impl |-> "backend", ts |-> PlainTs(3),
           env |-> [BaseEnv EXCEPT !.importable = FALSE, !.mds = "third_free"],
           np_rng |-> 0]}

\* the other CRS branches over the same embeddings, seeded or not
CrsSlice ==
    {[impl |-> im, ts |-> PlainTs(3),
      env |-> [BaseEnv EXCEPT !.mds = "third_free", !.seeds = Seeds,
                              !.crs = {"unit_grid", "EPSG:3857", "EPSG:9999"}],
      np_rng |-> 0] : im \in Impls}

\* any embedding of two samples (also degenerate ones) and MDS failures in the
\* unit-grid branches, over a plain and an all-zero distance matrix, unseeded:
\* every jitter the generator can give
UnitSlice ==
    {[impl |-> im, ts |-> PlainTs(2),
      env |-> [BaseEnv EXCEPT !.mds = f, !.mrca = m, !.seeds = {NoSeed},
                              !.crs = {"unit_grid", "EPSG:9999"}],
      np_rng |-> 0] : im \in Impls, f \in {"free", "fail"},
                      m \in {PlainMrca(1), ZeroMrca(1)}}

\* tree.mrca for the two orders of the pair (0, 1) in one tree: a distance, no
\* common ancestor, or an exception; tskit is not assumed symmetric
MrcaPairOutcomes ==
    {<<[kind |-> "mrca", d |-> 2], [kind |-> "mrca", d |-> 2]>>,
     <<[kind |-> "mrca", d |-> 2], [kind |-> "mrca", d |-> 6]>>,
     <<[kind |-> "raise", d |-> 0], [kind |-> "raise", d |-> 0]>>,
     <<[kind |-> "raise", d |-> 0], [kind |-> "mrca", d |-> 2]>>,
     <<[kind |-> "null", d |-> 0], [kind |-> "null", d |-> 0]>>,
     <<[kind |-> "null", d |-> 0], [kind |-> "mrca", d |-> 6]>>}

MrcaTables(ntrees) ==
    {[x \in (1..ntrees) \X NodeRange \X NodeRange |->
         IF x[2] = 0 /\ x[3] = 1 THEN f[x[1]][1]
         ELSE IF x[2] = 1 /\ x[3] = 0 THEN f[x[1]][2]
         ELSE [kind |-> "mrca", d |-> 4]] :
        f \in [1..ntrees -> MrcaPairOutcomes]}

\* spans may be zero
DistSlice ==
    {[impl |-> im, ts |-> PlainTs(n),
      env |-> [BaseEnv EXCEPT !.trees = spans, !.mrca = m, !.crs = {"unit_grid"}],
      np_rng |-> 0] :
        im \in Impls, n \in 2..3,
        spans \in [1..MaxTrees -> {0, 1, 3}],
        m \in MrcaTables(MaxTrees)}

\* tree.time gives every pair a negative sum of branch lengths
NegativeMrca(ntrees) ==
    [x \in (1..ntrees) \X NodeRange \X NodeRange |-> [kind |-> "mrca", d |-> 0 - 2]]

\* a distance matrix with negative entries, whether MDS then converges or raises
MalformedSlice ==
    {[impl |-> im, ts |-> PlainTs(2),
      env |-> [BaseEnv EXCEPT !.mrca = NegativeMrca(1), !.mds = "diag_or_fail",
                              !.crs = {"unit_grid"}],
      np_rng |-> 0] : im \in Impls}

Init == \E cfg \in BaseSlice \cup ShapeSlice \cup RepeatSlice \cup MalformedSlice : InitWith(cfg)

InitShape == \E cfg \in BaseSlice \cup ShapeSlice : InitWith(cfg)

InitLand == \E cfg \in BaseSlice \cup LandSlice \cup CrsSlice : InitWith(cfg)

InitUnit == \E cfg \in BaseSlice \cup UnitSlice : InitWith(cfg)

InitDist == \E cfg \in BaseSlice \cup DistSlice : InitWith(cfg)

\* every tree sequence shape, every copy of the code, repeated calls
Spec == Init /\ [][Next]_vars

\* every tree sequence shape and every copy of the code, one call
SpecShape == InitShape /\ [][Next]_vars

\* the land placement under every land dataset, and the other CRS branches
SpecLand == InitLand /\ [][Next]_vars

\* the unit-grid branches under every embedding and jitter
SpecUnit == InitUnit /\ [][Next]_vars

\* the distance matrix builder under every tree.mrca behaviour
SpecDist == InitDist /\ [][Next]_vars

-----------------------------------------------------------------------------
(* Properties                                                                *)

\* the builder was called with at least the minimum number of samples and is
\* about to hand its result to the caller
ReturnsFromFullCall == pc = "done" /\ Len(sample_nodes) >= MINIMUM_SAMPLES_REQUIRED

\* C1: for every input with at least the minimum number of samples and every
\* CRS the result is a tree sequence with one new individual per sample node;
\* every sample node references one of them, no two sample nodes the same one,
\* and no sample node is left without one.
C1_OneCoordinatePerSample ==
    ReturnsFromFullCall =>
        /\ result.kind = "ts"
        /\ Len(result.individuals) = Len(sample_nodes)
        /\ \A k \in 1..Len(sample_nodes) :
              result.node_individual[sample_nodes[k]] \in 0..(Len(result.individuals) - 1)
        /\ \A j \in 1..Len(sample_nodes), k \in 1..Len(sample_nodes) :
              j # k => result.node_individual[sample_nodes[j]]
                          # result.node_individual[sample_nodes[k]]

\* the land dataset is loaded, its geometry test answers, and the module is imported
OracleAvailable ==
    OracleImported(impl, env) /\ env.shapefile = "present" /\ ~env.geometry_raises

\* isOnLand(point) == true: the only answer the oracle gives for the point
IsOnLand(pt) ==
    is_point_on_land_eastern_hemisphere(cached_geometry, env, pt[1], pt[2]) = {"land"}

\* C2: with EPSG:4326 and an available land mask oracle (one whose dataset has
\* land) every point the land placement has returned is on land, whichever tier
\* produced it.
C2_PlacedPointsOnLand ==
    (call.crs = "EPSG:4326" /\ OracleAvailable /\ env.mask # "empty") =>
        \A k \in 1..Len(land_log) : IsOnLand(final_coords[k])

\* 1 initial query, 4 per local attempt for K/2 attempts, 5 per regional attempt
\* for the remaining K - K/2 attempts, K = 40
QueryBound == 1 + 4 * (40 \div 2) + 5 * (40 - 40 \div 2)

\* an oracle that answers false on every query
OracleAlwaysFalse == OracleAvailable /\ env.mask = "empty"

\* C3: the placement of one point ends after at most QueryBound oracle queries
\* (every step of the two loops advances a bounded counter) and leaves a
\* coordinate for every point; under an always-false oracle every point comes
\* from the quadrant fallback.
C3_BoundedPlacement ==
    /\ lp.queries <= QueryBound
    /\ pc = "local" =>
          /\ lp.attempt < 40 \div 2 /\ lp.strategy < 4
          /\ lp.queries = 1 + 4 * lp.attempt + lp.strategy
    /\ pc = "regional" =>
          /\ lp.attempt < 40 - 40 \div 2 /\ lp.tries < 5
          /\ lp.queries = 1 + 4 * (40 \div 2) + 5 * lp.attempt + lp.tries
    /\ \A k \in 1..Len(land_log) :
          /\ land_log[k].queries <= QueryBound
          /\ final_coords[k] \in Int \X Int
          /\ OracleAlwaysFalse => land_log[k].tier = "quadrant"
    /\ (pc \in {"attach", "done"} /\ call.crs = "EPSG:4326"
        /\ Len(sample_nodes) >= MINIMUM_SAMPLES_REQUIRED /\ result.kind # "raised")
          => Len(land_log) = Len(final_coords)

\* an always-false oracle took a point through every query to the quadrant fallback
C3_Witness ==
    /\ OracleAlwaysFalse
    /\ pc = "done"
    /\ \E k \in 1..Len(land_log) :
          land_log[k].tier = "quadrant" /\ land_log[k].queries = QueryBound

AllLocalQueries == LOCAL_SEARCH_STRATEGIES * (MAX_LAND_PLACEMENT_ATTEMPTS \div 2)
AllRegionalQueries ==
    REGIONAL_TRIES_PER_DRAW * (MAX_LAND_PLACEMENT_ATTEMPTS - MAX_LAND_PLACEMENT_ATTEMPTS \div 2)

\* C4: for a point that is not on land the tiers run in the order local
\* perturbation, regional resampling, quadrant fallback; regional resampling
\* starts only after the local perturbation used all its attempts, and the
\* quadrant fallback only after the regional resampling also used all of its.
C4_TierOrder ==
    /\ pc = "regional" => lp.local_queries = AllLocalQueries
    /\ pc = "quadrant" =>
          lp.local_queries = AllLocalQueries /\ lp.regional_queries = AllRegionalQueries
    /\ \A k \in 1..Len(land_log) :
          /\ land_log[k].tier = "local" => land_log[k].regional_queries = 0
          /\ land_log[k].tier = "regional" => land_log[k].local_queries = AllLocalQueries
          /\ land_log[k].tier = "quadrant" =>
                /\ land_log[k].local_queries = AllLocalQueries
                /\ land_log[k].regional_queries = AllRegionalQueries

\* the geometry test of the oracle raises on every call
OracleThrows ==
    OracleImported(impl, env) /\ env.shapefile = "present" /\ env.geometry_raises

\* longitude [-15, 180], latitude [-60, 75]
InGeographicBox(pt) ==
    InBox(pt[1], pt[2], WGS84_LONGITUDE_MIN, WGS84_LONGITUDE_MAX,
          WGS84_LATITUDE_MIN, WGS84_LATITUDE_MAX)

C6_MatrixSymmetric ==
    genealogical_distances # <<>> =>
        LET D == genealogical_distances
            n == Len(representative_nodes)
        IN /\ Len(D) = n
           /\ \A i \in 1..n :
                 /\ DOMAIN D[i] = 1..n
                 /\ D[i][i] = 0
                 /\ \A j \in 1..n : D[i][j] \in Nat /\ D[i][j] = D[j][i]

\* the matrix was built from raw values that differ between the two orders
C6_Witness ==
    /\ pc = "embed"
    /\ impl # "packaged"
    /\ genealogical_distances # <<>>
    /\ RawDistance(env, representative_nodes[1], representative_nodes[2])
          # RawDistance(env, representative_nodes[2], representative_nodes[1])

\* the oracle gives no distance for the ordered pair in any tree that has
\* weight: it throws, or finds no common ancestor (total weight zero)
OracleFailsFor(a, b) ==
    \A t \in 1..Len(env.trees) :
        env.trees[t] > 0 => MrcaOutcome(env, t, a, b).kind # "mrca"

\* C7: a failure of the distance oracle never leaves the builder; a pair for
\* which the oracle throws or the total weight is zero gets the fallback
\* distance, and every entry of the matrix is a number.
C7_OracleFailureAbsorbed ==
    /\ result.kind # "raised"
    /\ genealogical_distances # <<>> =>
          \A i \in 1..Len(representative_nodes), j \in 1..Len(representative_nodes) :
              /\ genealogical_distances[i][j] \in Nat
              /\ (i # j /\ OracleFailsFor(representative_nodes[i], representative_nodes[j])
                        /\ OracleFailsFor(representative_nodes[j], representative_nodes[i]))
                    => genealogical_distances[i][j] = GENEALOGICAL_DISTANCE_FALLBACK

UnitGridBranch == call.crs \notin {"EPSG:4326", "EPSG:3857"}

InUnitClip(v) == COORDINATE_BOUNDARY_EPSILON <= v /\ v <= ONE - COORDINATE_BOUNDARY_EPSILON

\* C8: with the unit grid, and with any CRS string that is not recognized,
\* every output coordinate is within [eps, 1 - eps] on each axis, so within
\* [0,1] x [0,1], for every embedding and every jitter.
C8_UnitGridBounds ==
    UnitGridBranch =>
        /\ \A k \in 1..Len(final_coords) :
              InUnitClip(final_coords[k][1]) /\ InUnitClip(final_coords[k][2])
        /\ \A k \in 1..Len(result.individuals) :
              /\ InUnitClip(result.individuals[k][1]) /\ InUnitClip(result.individuals[k][2])
              /\ 0 <= result.individuals[k][1] /\ result.individuals[k][1] <= ONE
              /\ 0 <= result.individuals[k][2] /\ result.individuals[k][2] <= ONE

\* a unit-grid call returned a coordinate that the clip had to bring back
C8_Witness ==
    /\ UnitGridBranch
    /\ pc = "done" /\ result.kind = "ts"
    /\ \E k \in 1..Len(result.individuals) :
          \/ result.individuals[k][1] = COORDINATE_BOUNDARY_EPSILON
          \/ result.individuals[k][2] = ONE - COORDINATE_BOUNDARY_EPSILON

StrictlyInGeographicBox(pt) ==
    /\ WGS84_LONGITUDE_MIN < pt[1] /\ pt[1] < WGS84_LONGITUDE_MAX
    /\ WGS84_LATITUDE_MIN < pt[2] /\ pt[2] < WGS84_LATITUDE_MAX

InMercatorClip(pt) ==
    /\ -WEB_MERCATOR_BOUNDS_X <= pt[1] /\ pt[1] <= WEB_MERCATOR_BOUNDS_X
    /\ -WEB_MERCATOR_BOUNDS_Y <= pt[2] /\ pt[2] <= WEB_MERCATOR_BOUNDS_Y
    /\ WEB_MERCATOR_BOUNDS_X < WEB_MERCATOR_NOMINAL_EXTENT
    /\ WEB_MERCATOR_BOUNDS_Y < WEB_MERCATOR_NOMINAL_EXTENT

WithinDeclaredBounds(crs, pt) ==
    CASE crs = "EPSG:4326" -> StrictlyInGeographicBox(pt)
      [] crs = "EPSG:3857" -> InMercatorClip(pt)
      [] OTHER -> 0 < pt[1] /\ pt[1] < ONE /\ 0 < pt[2] /\ pt[2] < ONE

\* C9: every CRS branch returns only coordinates strictly within its declared
\* bounds; for EPSG:4326 this holds after the land placement, whichever tier
\* produced the point, and for EPSG:3857 the clip bound is inside the nominal extent.
C9_WithinDeclaredBounds ==
    /\ \A k \in 1..Len(final_coords) : WithinDeclaredBounds(call.crs, final_coords[k])
    /\ \A k \in 1..Len(result.individuals) :
          WithinDeclaredBounds(call.crs, result.individuals[k])

\* a geographic call returned points of the quadrant fallback and of a search tier
C9_Witness ==
    /\ call.crs = "EPSG:4326"
    /\ pc = "done" /\ result.kind = "ts"
    /\ \E k \in 1..Len(land_log) : land_log[k].tier = "quadrant"
    /\ \E k \in 1..Len(land_log) : land_log[k].tier \in {"local", "regional"}
    /\ \E k \in 1..Len(land_log) : land_log[k].tier = "kept"

\* C10: two calls with the same seed (not None), the same tree sequence and
\* the unit grid return the same coordinates for every sample, whatever was
\* drawn from the generator between them.
C10_SeededUnitGridDeterministic ==
    \A h \in 1..Len(history) :
        (/\ pc = "done"
         /\ call.seed # NoSeed /\ call.seed = history[h].seed
         /\ call.crs = "unit_grid" /\ history[h].crs = "unit_grid")
            => result = history[h].result

\* the unit-grid coordinates a seeded run of main.py or backend/ returns when
\* it is the only user of the generator, given what MDS returned for the seed
SoloUnitGrid(seed, outcome) ==
    IF outcome # MDSFailed
    THEN generate_unit_grid_coordinates(normalize_coordinates(outcome), RngSeed(seed))
    ELSE generate_unit_grid_coordinates(
             normalize_coordinates(RandomLocations(EmbeddedRows, RngSeed(seed))),
             RngSkip(RngSeed(seed), 2 * EmbeddedRows))

\* C11: two seeded runs in parallel threads each return the coordinates the
\* run returns alone with its seed, under any interleaving: neither the
\* seeding nor the draws of one run reach the other's random-number source.
C11_ParallelRunsIsolated ==
    env.threads = 2 =>
        /\ (pc = "done" /\ result.kind = "ts" /\ call.seed # NoSeed)
              => final_coords = SoloUnitGrid(call.seed, mds_memo[call.seed])
        /\ peer.pc = "done" => peer.coords = SoloUnitGrid(peer.seed, mds_memo[peer.seed])

\* C12: the land dataset is not loaded before the first oracle call, and over
\* any calls of one process, also first calls from two threads at once, it is
\* loaded at most once; the stored outcome is what every later call reads.
C12_LoadedOnce ==
    /\ geometry_loads <= 1
    /\ cached_geometry = "unset" => geometry_loads = 0
    /\ cached_geometry # "unset" =>
          cached_geometry = get_land_geometry_eastern_hemisphere("unset", env)

TooFewSamples == Len(SampleNodes(ts)) < 2

\* C13: with fewer than two samples the builder is a no-op: it returns the
\* input tree sequence unchanged, does not raise, and makes no distance query,
\* no embedding, no projection and no land search.
C13_TooFewSamplesNoOp ==
    TooFewSamples =>
        /\ pc \in {"idle", "done"}
        /\ pc = "done" =>
              /\ result.kind = "input"
              /\ result.individuals = <<>>
              /\ result.node_individual = [n \in Nodes(ts) |-> ts[n].individual]
        /\ \A h \in 1..Len(history) :
              /\ history[h].result.kind = "input"
              /\ history[h].result.node_individual = [n \in Nodes(ts) |-> ts[n].individual]
        /\ genealogical_distances = <<>> /\ mds_memo = <<>> /\ spatial_coords = <<>>
        /\ normalized_coords = <<>> /\ final_coords = <<>>
        /\ land_log = <<>> /\ lp = LpIdle /\ geometry_loads = 0

\* a geographic call on a tree sequence with one sample, which has an individual, returned
C13_Witness ==
    /\ Len(SampleNodes(ts)) = 1
    /\ ts[SampleNodes(ts)[1]].individual # -1
    /\ pc = "done" /\ call.crs = "EPSG:4326"
    /\ result.kind = "input"

\* the MDS optimizer raised in the running call
MdsRaised ==
    \/ env.mds = "fail"
    \/ call.seed # NoSeed /\ call.seed \in DOMAIN mds_memo /\ mds_memo[call.seed] = MDSFailed

AfterEmbed == {"project", "land_check", "local", "regional", "quadrant", "attach"}

\* C14: when the MDS optimizer raises, embed_distances_in_2d does not pass the
\* error on: it logs a warning and returns one row of two values per row of
\* the distance matrix, each value a separate uniform draw from
\* [0, SPATIAL_GRID_SIZE]; the call then returns one coordinate per sample.
C14_MdsFailureAbsorbed ==
    MdsRaised =>
        /\ pc \in AfterEmbed =>
              /\ result.kind # "raised"
              /\ "mds_failed" \in log
              /\ Len(spatial_coords) = Len(genealogical_distances)
              /\ \A k \in 1..Len(spatial_coords) :
                    /\ DOMAIN spatial_coords[k] = 1..2
                    /\ \A ax \in 1..2 : /\ 0 <= spatial_coords[k][ax]
                                        /\ spatial_coords[k][ax] <= SPATIAL_GRID_SIZE
              /\ \E s \in 0..(RngMod - 1) :
                    \A k \in 1..Len(spatial_coords) :
                        /\ spatial_coords[k][1] = UniformAt(s, 2 * k - 1, 0, SPATIAL_GRID_SIZE)
                        /\ spatial_coords[k][2] = UniformAt(s, 2 * k, 0, SPATIAL_GRID_SIZE)
        /\ (pc = "done" /\ spatial_coords # <<>>) =>
              /\ result.kind = "ts"
              /\ Len(result.individuals) = Len(sample_nodes)

\* a call whose MDS raised returned a tree sequence with coordinates
C14_Witness ==
    /\ MdsRaised
    /\ pc = "done" /\ result.kind = "ts"
    /\ "mds_failed" \in log
    /\ Len(result.individuals) = Len(sample_nodes)

UnknownCrs == call.crs \notin KnownCrs

\* C15: for a CRS identifier other than "unit_grid", "EPSG:4326" and
\* "EPSG:3857" the call does not raise at the CRS branch: it logs a warning and
\* its coordinates are what generate_unit_grid_coordinates gives for the
\* normalized embedding (same margin, jitter and clip as for "unit_grid").
C15_UnknownCrsIsUnitGrid ==
    (UnknownCrs /\ pc \in {"attach", "done"} /\ final_coords # <<>>) =>
        /\ "unknown_crs" \in log
        /\ lp = LpIdle /\ land_log = <<>>
        /\ \E s \in 0..(RngMod - 1) :
              final_coords = generate_unit_grid_coordinates(normalized_coords, s)
        /\ pc = "done" =>
              /\ result.kind = "ts"
              /\ \A k \in 1..Len(result.individuals) :
                    \E j \in 1..Len(final_coords) :
                        result.individuals[k] = <<final_coords[j][1], final_coords[j][2], 0>>

\* a call with an unrecognized CRS returned unit-grid coordinates
C15_Witness ==
    /\ UnknownCrs
    /\ pc = "done" /\ result.kind = "ts"
    /\ "unknown_crs" \in log
    /\ Len(result.individuals) >= 2

\* the distance matrix of the running call has a negative entry, or its size
\* is not the number of samples
MalformedMatrix ==
    /\ genealogical_distances # <<>>
    /\ \/ \E i \in 1..Len(genealogical_distances), j \in 1..Len(genealogical_distances) :
             genealogical_distances[i][j] < 0
       \/ Len(genealogical_distances) # Len(sample_nodes)

\* C16: a distance matrix with a negative entry, or of a size other than the
\* number of samples, makes the call raise and return no coordinates; the call
\* never falls back to random placement on such a matrix.
C16_MalformedInputRejected ==
    MalformedMatrix =>
        /\ pc \notin AfterEmbed
        /\ "mds_failed" \notin log
        /\ pc = "done" => result.kind = "raised"

AxisValues(coords, ax) == {coords[k][ax] : k \in 1..Len(coords)}

\* C17: normalize_coordinates gives a result for every embedding and, on each
\* axis by itself: when the raw values are not all equal the normalized values
\* lie in [0, 1] with minimum exactly 0 and maximum exactly 1; when they are
\* all equal every normalized value is one same constant in [0, 1].
C17_NormalizePerAxis ==
    (normalized_coords # <<>> /\ spatial_coords # <<>>) =>
        /\ normalized_coords = normalize_coordinates(spatial_coords)
        /\ Len(normalized_coords) = Len(spatial_coords)
        /\ \A ax \in 1..2 :
              LET raw == AxisValues(spatial_coords, ax)
                  out == AxisValues(normalized_coords, ax)
              IN /\ \A v \in out : 0 <= v /\ v <= ONE
                 /\ IF Cardinality(raw) > 1
                    THEN 0 \in out /\ ONE \in out
                    ELSE Cardinality(out) = 1

\* an embedding with one spread axis and one flat axis was normalized
C17_Witness ==
    /\ normalized_coords # <<>> /\ spatial_coords # <<>>
    /\ Cardinality(AxisValues(spatial_coords, 1)) > 1
    /\ 0 \notin AxisValues(spatial_coords, 1)
    /\ Cardinality(AxisValues(spatial_coords, 2)) = 1
    /\ AxisValues(spatial_coords, 2) # {0}

\* the records the other stages write: too few samples, MDS failure, unknown CRS
StageRecords == {"too_few_samples", "mds_failed", "unknown_crs"}

\* what the land placement itself has written to the log
PlacementRecords == log \ StageRecords

\* C18: when the land mask oracle cannot be imported at all, every point is
\* returned where the projector put it, without relocation and without an
\* oracle query, and the placement writes a log record of this passthrough
\* that is not the record of a land search that found no land.
C18_UnavailablePassthroughLogged ==
    (call.crs = "EPSG:4326" /\ ~OracleImported(impl, env)) =>
        /\ lp.queries = 0 /\ geometry_loads = 0
        /\ \A k \in 1..Len(land_log) :
              /\ land_log[k].tier = "unavailable"
              /\ land_log[k].queries = 0
              /\ final_coords[k] = land_log[k].projected
        /\ land_log # <<>> => PlacementRecords # {}

\* C19: in one run index k is the same sample at every stage: row k of the
\* distance matrix is computed for sample k, rows k of the embedding and of the
\* projection follow from it, and the coordinate attached to sample k's node
\* is projected row k, never the row computed for another sample.
C19_IndexStability ==
    (pc = "done" /\ result.kind = "ts") =>
        /\ Len(representative_nodes) = Len(sample_nodes)
        /\ Len(genealogical_distances) = Len(sample_nodes)
        /\ Len(spatial_coords) = Len(sample_nodes)
        /\ Len(final_coords) = Len(sample_nodes)
        /\ \A k \in 1..Len(sample_nodes) :
              /\ representative_nodes[k] = sample_nodes[k]
              /\ result.node_individual[sample_nodes[k]] = k - 1
              /\ result.individuals[k] = <<final_coords[k][1], final_coords[k][2], 0>>

\* the answers the oracle can give for the point the projector produced for
\* row k (the archipelago rule answers either way)
ProjectedAnswers(k) ==
    is_point_on_land_eastern_hemisphere(cached_geometry, env,
                                        land_log[k].projected[1],
                                        land_log[k].projected[2])

\* the oracle reports the projected point of row k as on land
ProjectedOnLand(k) == OracleImported(impl, env) /\ ProjectedAnswers(k) = {"land"}

\* C20: a projected point that the oracle reports as on land is returned
\* unchanged by the land placement: exactly one oracle query was made for it,
\* no candidate was generated, and its longitude and latitude are the ones
\* the projector produced.
C20_OnLandPointKept ==
    call.crs = "EPSG:4326" =>
        \A k \in 1..Len(land_log) :
            /\ ProjectedOnLand(k) =>
                  /\ land_log[k].tier = "kept"
                  /\ land_log[k].queries = 1
                  /\ land_log[k].local_queries = 0
                  /\ land_log[k].regional_queries = 0
                  /\ final_coords[k] = land_log[k].projected
            /\ land_log[k].tier = "kept" =>
                  OracleImported(impl, env) /\ "land" \in ProjectedAnswers(k)

\* a call has returned a point that was on land where the projector put it
C20_Witness ==
    /\ call.crs = "EPSG:4326"
    /\ pc = "done" /\ result.kind = "ts"
    /\ \E k \in 1..Len(land_log) :
          /\ ProjectedOnLand(k)
          /\ land_log[k].tier = "kept"
          /\ result.individuals[k] = <<land_log[k].projected[1], land_log[k].projected[2], 0>>

\* the locations of a returned table are triples with third component zero
PlanarLocations(res) ==
    \A k \in 1..Len(res.individuals) :
        /\ DOMAIN res.individuals[k] = 1..3
        /\ res.individuals[k][3] = 0

\* C21: every location written for a sample is a triple <<x, y, z>> with z
\* exactly 0, for every CRS and every path through the pipeline.
C21_LocationsHaveZeroZ ==
    /\ PlanarLocations(result)
    /\ \A h \in 1..Len(history) : PlanarLocations(history[h].result)
    /\ (pc = "done" /\ result.kind = "ts") =>
          /\ Len(result.individuals) = Len(sample_nodes)
          /\ \A k \in 1..Len(sample_nodes) :
                result.node_individual[sample_nodes[k]] \in 0..(Len(result.individuals) - 1)

\* a geographic call has written one location per sample
C21_Witness ==
    /\ pc = "done" /\ result.kind = "ts"
    /\ call.crs = "EPSG:4326"
    /\ Len(result.individuals) >= 2
    /\ \A k \in 1..Len(result.individuals) : result.individuals[k][3] = 0

\* the local attempts of one point: K/2
LocalAttempts == MAX_LAND_PLACEMENT_ATTEMPTS \div 2

\* the point of row k is where the projector put it, for some jitter
StillProjected(k) ==
    \E s \in 0..(RngMod - 1) : final_coords[k] = ProjectWgs84(normalized_coords, s)[k]

\* C22: the local perturbation makes at most K/2 attempts with a radius
\* base + a * increment that grows with a, tries the strategies 0, 1, 2, 3 in
\* this order within an attempt, clips every candidate to the inset bounds
\* before the oracle sees it, and returns the first candidate reported on land
\* without generating another; when no candidate is on land the point is left
\* as it was.
C22_LocalPerturbation ==
    /\ \A a \in 0..(LocalAttempts - 2) : LocalSearchRadius(a) < LocalSearchRadius(a + 1)
    /\ \A a \in 0..(LocalAttempts - 1) :
          LocalSearchRadius(a) = LAND_SEARCH_RADIUS_BASE + a * LAND_SEARCH_RADIUS_INCREMENT
    /\ pc = "local" =>
          /\ lp.attempt \in 0..(LocalAttempts - 1)
          /\ lp.strategy \in 0..(LOCAL_SEARCH_STRATEGIES - 1)
          /\ lp.local_queries = LOCAL_SEARCH_STRATEGIES * lp.attempt + lp.strategy
          /\ StillProjected(lp.i)
    /\ pc \in {"regional", "quadrant"} =>
          /\ lp.local_queries = LOCAL_SEARCH_STRATEGIES * LocalAttempts
          /\ lp.regional_queries = 0 => StillProjected(lp.i)
    /\ lp.local_queries <= LOCAL_SEARCH_STRATEGIES * LocalAttempts
    /\ \A k \in 1..Len(land_log) :
          land_log[k].tier = "local" =>
              LET n == land_log[k].local_queries
                  attempt == (n - 1) \div LOCAL_SEARCH_STRATEGIES
                  strategy == (n - 1) % LOCAL_SEARCH_STRATEGIES
              IN /\ n \in 1..(LOCAL_SEARCH_STRATEGIES * LocalAttempts)
                 /\ land_log[k].queries = 1 + n
                 /\ land_log[k].regional_queries = 0
                 /\ InBox(final_coords[k][1], final_coords[k][2],
                          WGS84_LONGITUDE_MIN + WGS84_CLIP_INSET,
                          WGS84_LONGITUDE_MAX - WGS84_CLIP_INSET,
                          WGS84_LATITUDE_MIN + WGS84_CLIP_INSET,
                          WGS84_LATITUDE_MAX - WGS84_CLIP_INSET)
                 /\ "land" \in is_point_on_land_eastern_hemisphere(
                                   cached_geometry, env, final_coords[k][1], final_coords[k][2])
                 /\ \E s \in 0..(RngMod - 1) :
                       final_coords[k] = LocalCandidate(land_log[k].projected[1],
                                                        land_log[k].projected[2],
                                                        strategy, attempt, s)

\* the local search has returned a candidate of a later attempt for one point
\* and has failed for another
C22_Witness ==
    /\ \E k \in 1..Len(land_log) :
          land_log[k].tier = "local" /\ land_log[k].local_queries > LOCAL_SEARCH_STRATEGIES
    /\ \E k \in 1..Len(land_log) :
          land_log[k].tier \in {"regional", "quadrant"}
          /\ land_log[k].local_queries = LOCAL_SEARCH_STRATEGIES * LocalAttempts

\* the quarter of x: how many of the thresholds 0.25, 0.5, 0.75 are at or below x
Quarter(x) == (IF x >= 250 THEN 1 ELSE 0) + (IF x >= 500 THEN 1 ELSE 0) + (IF x >= 750 THEN 1 ELSE 0)

\* y lies above the threshold of the quarter: 0.6, and 0.4 in the eastern quarter
Northern(x, y) == y > (IF Quarter(x) < 3 THEN 600 ELSE 400)

\* the boxes by quarter (west to east), southern then northern
FallbackBoxes ==
    << << <<0, 2000, -1000, 2000>>,      <<500, 2500, 4500, 6500>> >>,
       << <<1500, 3500, -2000, 1000>>,   <<2500, 5000, 4500, 6500>> >>,
       << <<5000, 9000, 1000, 3500>>,    <<6000, 12000, 3500, 5500>> >>,
       << <<12000, 15000, -3500, -1500>>, <<10000, 14000, 2500, 4500>> >> >>

ExpectedBox(x, y) == FallbackBoxes[Quarter(x) + 1][IF Northern(x, y) THEN 2 ELSE 1]

InExpectedBox(pt, x, y) ==
    LET b == ExpectedBox(x, y) IN InBox(pt[1], pt[2], b[1], b[2], b[3], b[4])

\* positions on and next to every threshold, and the corners of the plane
ThresholdPositions == {0, 249, 250, 251, 399, 400, 401, 499, 500, 501, 599, 600, 601,
                       749, 750, 751, ONE}

\* C23: the quadrant fallback gives a point for every original position in the
\* unit square, inside the box of the position's quadrant (x thresholds 0.25,
\* 0.5, 0.75; y threshold 0.6, and 0.4 for x >= 0.75), and it asks the land
\* mask oracle nothing.  Whenever the fallback is about to run, the positions
\* on and around the thresholds are tried with the generator as it stands.
C23_QuadrantFallback ==
    /\ pc = "quadrant" =>
          \A x \in ThresholdPositions, y \in ThresholdPositions :
              InExpectedBox(QuadrantPoint(x, y, np_rng), x, y)
    /\ \A k \in 1..Len(land_log) :
          land_log[k].tier = "quadrant" =>
              /\ InExpectedBox(final_coords[k], normalized_coords[k][1], normalized_coords[k][2])
              /\ land_log[k].queries = 1 + land_log[k].local_queries + land_log[k].regional_queries
    /\ pc = "quadrant" => lp.queries = 1 + lp.local_queries + lp.regional_queries

\* the fallback has placed a point of the western and a point of the eastern half
C23_Witness ==
    /\ pc = "done" /\ result.kind = "ts"
    /\ \E j \in 1..Len(land_log), k \in 1..Len(land_log) :
          /\ land_log[j].tier = "quadrant" /\ land_log[k].tier = "quadrant"
          /\ Quarter(normalized_coords[j][1]) = 0
          /\ Quarter(normalized_coords[k][1]) = 3
          /\ InExpectedBox(final_coords[k], normalized_coords[k][1], normalized_coords[k][2])

\* distance, in the unit square, between a position and the center of region k
CenterDistance(x, y, k) ==
    LET r == GEOGRAPHIC_LAND_REGIONS[k]
        cx == ((r[1] - WGS84_LONGITUDE_MIN) * ONE) \div WGS84_LONGITUDE_RANGE
        cy == ((r[2] - WGS84_LATITUDE_MIN) * ONE) \div WGS84_LATITUDE_RANGE
    IN ISqrt((x - cx) * (x - cx) + (y - cy) * (y - cy))

RegionIds == 1..Len(GEOGRAPHIC_LAND_REGIONS)

\* weights w (before the division by their sum) are a distribution once divided:
\* none negative, a positive sum, and every variate selects one region
IsDistribution(w) ==
    /\ \A k \in RegionIds : w[k] >= 0
    /\ SumSeq(w) > 0
    /\ PrefixSum(w, Len(w)) = SumSeq(w)
    /\ \A u \in {UTable[j] : j \in 1..Len(UTable)} :
          ChooseRegion(w, u) \in RegionIds /\ w[ChooseRegion(w, u)] > 0

\* C24 as stated: the weights come from the original normalized position, are
\* in inverse proportion to the distance to each region's center (weight times
\* distance is the same for every region, up to rounding), and form a
\* probability distribution; equidistant regions get equal weights.
C24_WeightsInverselyProportional ==
    (pc = "regional" /\ lp.regional_queries = 0) =>
        LET x == normalized_coords[lp.i][1]
            y == normalized_coords[lp.i][2]
            w == RegionWeights(x, y)
            d == [k \in RegionIds |-> CenterDistance(x, y, k)]
        IN /\ IsDistribution(w)
           /\ \A i \in RegionIds, j \in RegionIds :
                 /\ Abs(w[i] * d[i] - w[j] * d[j]) <= 2 * ONE
                 /\ d[i] = d[j] => w[i] = w[j]

\* C24: the weights are computed once per point, when the regional resampling
\* starts, from the original normalized position; the weight of a region is
\* max(0, 1 - d) for its distance d, so it falls linearly with the distance and
\* is zero from distance 1 on; divided by their sum the weights form a
\* probability distribution; equidistant regions get equal weights and a zero
\* sum gives every region the same weight.
C24_WeightsFallWithDistance ==
    (pc = "regional" /\ lp.regional_queries = 0) =>
        LET x == normalized_coords[lp.i][1]
            y == normalized_coords[lp.i][2]
            w == RegionWeights(x, y)
            d == [k \in RegionIds |-> CenterDistance(x, y, k)]
            raw == [k \in RegionIds |-> Max2(0, ONE - d[k])]
        IN /\ IsDistribution(w)
           /\ IF SumSeq(raw) > 0 THEN w = raw ELSE \A k \in RegionIds : w[k] = w[1]
           /\ \A i \in RegionIds, j \in RegionIds :
                 /\ d[i] <= d[j] => w[i] >= w[j]
                 /\ d[i] = d[j] => w[i] = w[j]

\* the regional resampling starts for a position from which a region is at distance 1 or more
C24_Witness ==
    /\ pc = "regional"
    /\ lp.regional_queries = 0
    /\ \E k \in RegionIds :
          RegionWeights(normalized_coords[lp.i][1], normalized_coords[lp.i][2])[k] = 0
    /\ \E k \in RegionIds :
          RegionWeights(normalized_coords[lp.i][1], normalized_coords[lp.i][2])[k] > 0

\* C25: whenever calculate_genealogical_distances is about to be called, or has
\* been called, in a run, the list handed to it (the sample nodes, or the
\* representative nodes of the packaged version) has at least two entries.
C25_BuilderGetsTwoEntries ==
    (pc = "dist" \/ genealogical_distances # <<>>) =>
        Len(representative_nodes) >= MINIMUM_SAMPLES_REQUIRED

\* C26: the returned tree sequence has the nodes of the input; every sample
\* node is linked to the individual created for it, and every other node is as
\* it was in the input, its individual included.
C26_OtherNodesUnchanged ==
    (pc = "done" /\ result.kind = "ts") =>
        /\ DOMAIN result.node_individual = Nodes(ts)
        /\ \A k \in 1..Len(sample_nodes) :
              result.node_individual[sample_nodes[k]] = k - 1
        /\ \A n \in Nodes(ts) :
              ~ts[n].sample => result.node_individual[n] = ts[n].individual

\* C27: with the land geometry cache settled (geometry loaded, or none so that
\* the coordinate rules answer) the oracle gives one answer per point: every
\* query of one longitude and latitude returns the same boolean, so a point the
\* placement search accepted as on land is reported on land when asked again.
C27_OracleIsFunctionOfPoint ==
    (call.crs = "EPSG:4326" /\ OracleImported(impl, env) /\ cached_geometry # "unset") =>
        \A k \in 1..Len(land_log) :
            /\ Cardinality(is_point_on_land_eastern_hemisphere(
                               cached_geometry, env, final_coords[k][1], final_coords[k][2])) = 1
            /\ land_log[k].tier \in {"kept", "local", "regional"} =>
                  is_point_on_land_eastern_hemisphere(
                      cached_geometry, env, final_coords[k][1], final_coords[k][2]) = {"land"}

\* C28: in the packaged version two distinct sample nodes have the same
\* representative, and so the same coordinates, only if both belong to one
\* individual of the input; a sample node without an individual shares its
\* representative with no other sample node.
C28_SharedRepresentativeSameIndividual ==
    (impl = "packaged" /\ representative_nodes # <<>>) =>
        /\ \A j \in 1..Len(sample_nodes), k \in 1..Len(sample_nodes) :
              (j # k /\ Representative(ts, sample_nodes[j]) = Representative(ts, sample_nodes[k]))
                 => /\ ts[sample_nodes[j]].individual # -1
                    /\ ts[sample_nodes[j]].individual = ts[sample_nodes[k]].individual
        /\ (pc = "done" /\ result.kind = "ts") =>
              \A j \in 1..Len(sample_nodes), k \in 1..Len(sample_nodes) :
                  (j # k /\ ts[sample_nodes[j]].individual = -1)
                     => RepIndex(representative_nodes, Representative(ts, sample_nodes[j]))
                           # RepIndex(representative_nodes, Representative(ts, sample_nodes[k]))

\* C29: in the packaged version every element of representative_nodes handed
\* to calculate_genealogical_distances is the id of a sample node of the input
\* tree sequence, however the sample nodes are assigned to individuals.
C29_RepresentativesAreSamples ==
    (impl = "packaged" /\ (pc = "dist" \/ genealogical_distances # <<>>)) =>
        \A k \in 1..Len(representative_nodes) :
            /\ representative_nodes[k] \in Nodes(ts)
            /\ ts[representative_nodes[k]].sample

\* positions of the unit square in steps of an eighth, corners and edges included
EighthPositions == {(k * ONE) \div 8 : k \in 0..8}

\* some region of the catalog has a strictly positive weight at (x, y)
SomeWeightPositive(x, y) ==
    \E k \in RegionIds : RegionWeight(x, y, GEOGRAPHIC_LAND_REGIONS[k]) > 0

\* C30: for every original normalized position in the unit square and the
\* catalog of seven regions some weight max(0, 1 - distance) is strictly
\* positive, so the total weight is positive and the regional resampling never
\* takes its uniform-weights branch.  Checked where the weights are computed:
\* for the point at hand and for the positions of the square an eighth apart.
C30_SomeWeightPositive ==
    /\ Len(GEOGRAPHIC_LAND_REGIONS) = 7
    /\ (pc = "regional" /\ lp.regional_queries = 0) =>
          /\ SomeWeightPositive(normalized_coords[lp.i][1], normalized_coords[lp.i][2])
          /\ \A x \in EighthPositions, y \in EighthPositions : SomeWeightPositive(x, y)

\* the weights are computed for a point in a corner of the unit square
C30_Witness ==
    /\ pc = "regional" /\ lp.regional_queries = 0
    /\ normalized_coords[lp.i] \in {<<0, 0>>, <<ONE, ONE>>, <<0, ONE>>, <<ONE, 0>>}
    /\ SomeWeightPositive(normalized_coords[lp.i][1], normalized_coords[lp.i][2])

====
